---- MODULE Spec2Model ----
(***************************************************************************)
(* Model of src/app.py: a Streamlit page that classifies an uploaded brain *)
(* MRI image with a cached Keras model.                                    *)
(*                                                                         *)
(* Numbers.  A model probability is an integer number of millionths        *)
(* (Unit = 1.0).  A displayed percentage is an integer number of           *)
(* hundredths of a percent (2500 = 25.00), which is what                   *)
(* round(float(p * 100), 2) keeps.                                         *)
(***************************************************************************)
EXTENDS Integers, Sequences, FiniteSets, TLC

\* ------------------------------------------------------------------ bounds
NumSessions == 1      \* browser sessions of the one server process
MaxBytes    == 2      \* uploaded byte strings are 0..MaxBytes (0 = empty buffer)
NumNames    == 2      \* file names are 1..NumNames
NumModels   == 1      \* contents the file tumor_model.keras can have (0 = unloadable)
MaxEvents   == 3      \* cap on the events of the browsers and of the disk
FnMaxBytes  == 9      \* byte strings drawn for the function-level specification

\* -------------------------------------------------------------------- state
VARIABLES
    modelFile,      \* content of tumor_model.keras on disk, 0 = cannot be loaded
    cache,          \* st.cache_resource entry of load_model, 0 = no entry
    loads,          \* executions of tf.keras.models.load_model so far: the handle
                    \* each returned, 0 when it raised
    calls,          \* the real_prediction calls made so far
    uploaded,       \* per session: value of the st.file_uploader widget
    session_state,  \* per session: st.session_state
    model,          \* per session: module global `model` of the current run
    pc,             \* per session: position of the script run
    rendered,       \* per session: what render_results drew in the current run
    exc,            \* per session: exception that ended the current run
    ret,            \* per session: what the real_prediction call of line 805
                    \* returned, until main has stored it
    cycle,          \* per session: the browser event being served: its kind,
                    \* and the real_prediction calls and st.rerun()s it caused
    storedSinceRemoval, \* per session: lines 805-806 have stored a prediction
                    \* since the uploader was last emptied
    events,         \* events of the browsers and of the disk so far
    fnIn,           \* function-level specification: the input
    fnOut           \* function-level specification: the output

vars == <<modelFile, cache, loads, calls, uploaded, session_state,
          model, pc, rendered, exc, ret, cycle, storedSinceRemoval, events,
          fnIn, fnOut>>

procVars == <<modelFile, cache, loads, calls, uploaded, session_state,
              model, pc, rendered, exc, ret, cycle, storedSinceRemoval, events>>

\* --------------------------------------------------------------- constants
CLASS_NAMES_misspelt == <<"glioma", "meningioma", "no_tumor", "pituitary">>

CLASS_NAMES == <<"glioma", "meningioma", "notumor", "pituitary">>

TUMOR_INFO_KEYS == {"glioma", "meningioma", "notumor", "pituitary"}

\* TUMOR_INFO: for each key, the fields its entry has
TUMOR_INFO ==
    [glioma     |-> {"label", "color", "severity", "severity_level", "description",
                     "symptoms", "treatment", "prevalence", "survival_rate"},
     meningioma |-> {"label", "color", "severity", "severity_level", "description",
                     "symptoms", "treatment", "prevalence", "survival_rate"},
     notumor    |-> {"label", "color", "severity", "severity_level", "description",
                     "symptoms", "treatment", "prevalence", "survival_rate"},
     pituitary  |-> {"label", "color", "severity", "severity_level", "description",
                     "symptoms", "treatment", "prevalence", "survival_rate"}]

TargetSize == 300

Unit == 1000000

Quarter == Unit \div 4

Sessions == 1..NumSessions

\* ------------------------------------------------------- the external model
\* What model.predict can return: a normalised distribution over the four
\* classes.  Coarse distributions (multiples of a quarter) are perturbed by
\* small zero-sum offsets so that exact ties, ties that appear only after
\* rounding, and rounding half-way cases all occur.
BaseSeq ==
    SelectSeq([i \in 1..125 |->
                 LET a == (i - 1) % 5
                     b == ((i - 1) \div 5) % 5
                     c == ((i - 1) \div 25) % 5
                 IN  <<a * Quarter, b * Quarter, c * Quarter, (4 - a - b - c) * Quarter>>],
              LAMBDA v : v[4] >= 0)

DeltaSeq ==
    << <<0, 0, 0, 0>>,
       <<1, 4, 0, -5>>,
       <<50, 50, 50, -150>>,
       <<-50, -50, -50, 150>>,
       <<75, 75, 75, -225>>,
       <<-4, 0, 3, 1>> >>

PredSeq ==
    SelectSeq([i \in 1..(Len(BaseSeq) * Len(DeltaSeq)) |->
                 LET bs == BaseSeq[((i - 1) \div Len(DeltaSeq)) + 1]
                     d  == DeltaSeq[((i - 1) % Len(DeltaSeq)) + 1]
                 IN  [k \in 1..4 |-> bs[k] + d[k]]],
              LAMBDA v : \A k \in 1..4 : v[k] >= 0)

\* ------------------------------------------------------------ return values
NoResult == [class_name |-> "", confidence |-> 0, probabilities |-> <<>>]

\* What a call gives back: the exception it raised or the value it returned,
\* and `predicts`, the tensors it handed to model.predict, in order.
Return(v) == [raised |-> "", value |-> v, predicts |-> <<>>]

Raise(e) == [raised |-> e, value |-> NoResult, predicts |-> <<>>]

Predicted(r, img_array) == [r EXCEPT !.predicts = Append(@, img_array)]

\* ------------------------------------------------------------ PIL and numpy
DimSeq == <<1, 500, 300>>

ModeSeq == <<"L", "RGB", "RGBA">>

NoImage == [mode |-> "", size |-> <<0, 0>>, px |-> 0]

\* Image.open(io.BytesIO(image_bytes)): the empty buffer does not decode;
\* any other byte string is an image whose mode and size are its header.
Image_open(image_bytes) ==
    IF image_bytes = 0
    THEN [raised |-> "UnidentifiedImageError", value |-> NoImage]
    ELSE [raised |-> "",
          value  |-> [mode |-> ModeSeq[(image_bytes % 3) + 1],
                      size |-> <<DimSeq[((image_bytes - 1) % 3) + 1],
                                 DimSeq[(((image_bytes - 1) \div 3) % 3) + 1]>>,
                      px   |-> image_bytes]]

Decodes(image_bytes) == Image_open(image_bytes).raised = ""

convert(image, mode) == [image EXCEPT !.mode = mode]

resize_keep(image, size) == image

resize(image, size) == [image EXCEPT !.size = size]

Channels(mode) == IF mode = "L" THEN 1 ELSE IF mode = "RGBA" THEN 4 ELSE 3

np_array(image) ==
    [shape |-> <<image.size[2], image.size[1], Channels(image.mode)>>,
     px    |-> image.px,
     pre   |-> FALSE]

preprocess_none(img_array) == [img_array EXCEPT !.pre = FALSE]

\* efficientnet.preprocess_input keeps the pixel values (the network rescales
\* them itself); `pre` marks an array that went through it.
preprocess_input(img_array) == [img_array EXCEPT !.pre = TRUE]

expand_dims(img_array) == [img_array EXCEPT !.shape = <<1>> \o img_array.shape]

\* The answer of the model `mdl` for the image with pixels `px`: images that
\* differ get answers that differ in more than the rounding.
AnswerIndex(mdl, px) == ((mdl - 1 + (px - 1) * 11) % Len(PredSeq)) + 1

model_predict_seeded(mdl, img_array) ==
    IF img_array.shape # <<1, TargetSize, TargetSize, 3>>
    THEN [raised |-> "ValueError", value |-> <<>>]
    ELSE [raised |-> "",
          value  |-> PredSeq[AnswerIndex(mdl + Cardinality(calls), img_array.px)]]

\* model.predict(img_array, verbose=0)[0]: the forward pass of the loaded
\* model, a fixed function of the handle and the input tensor; it rejects a
\* tensor that is not 1 x 300 x 300 x 3.
model_predict(mdl, img_array) ==
    IF img_array.shape # <<1, TargetSize, TargetSize, 3>>
    THEN [raised |-> "ValueError", value |-> <<>>]
    ELSE [raised |-> "",
          value  |-> PredSeq[AnswerIndex(mdl, img_array.px)]]

\* ------------------------------------------------------------ result fields
RECURSIVE argmax_from(_, _, _)
argmax_from(preds, i, best) ==
    IF i > Len(preds) THEN best
    ELSE argmax_from(preds, i + 1, IF preds[i] > preds[best] THEN i ELSE best)

RECURSIVE argmax_last_from(_, _, _)
argmax_last_from(preds, i, best) ==
    IF i > Len(preds) THEN best
    ELSE argmax_last_from(preds, i + 1, IF preds[i] >= preds[best] THEN i ELSE best)

argmax_last(preds) == argmax_last_from(preds, 2, 1)

RECURSIVE argmin_from(_, _, _)
argmin_from(preds, i, best) ==
    IF i > Len(preds) THEN best
    ELSE argmin_from(preds, i + 1, IF preds[i] < preds[best] THEN i ELSE best)

argmin(preds) == argmin_from(preds, 2, 1)

\* np.argmax: index of the first maximal entry
argmax(preds) == argmax_from(preds, 2, 1)

RoundHalfEven(n, q) ==
    LET f == n \div q
        r == n % q
    IN  IF 2 * r < q THEN f
        ELSE IF 2 * r > q THEN f + 1
        ELSE IF f % 2 = 0 THEN f ELSE f + 1

round_pct_unscaled(p) == RoundHalfEven(p, Unit \div 100)

\* round(float(p * 100), 2), in hundredths of a percent
round_pct(p) == RoundHalfEven(p * 100, Unit \div 100)

RECURSIVE DictGetFrom(_, _, _)
DictGetFrom(d, k, i) ==
    IF d[i][1] = k THEN d[i][2] ELSE DictGetFrom(d, k, i + 1)

DictGet_first(d, k) == d[1][2]

\* d[k] for a dict kept as the sequence of its items in insertion order
DictGet(d, k) == DictGetFrom(d, k, 1)

DictKeys(d) == {d[i][1] : i \in 1..Len(d)}

make_probs_first(preds) ==
    [i \in 1..Len(CLASS_NAMES) |-> <<CLASS_NAMES[i], round_pct(preds[1])>>]

make_probs(preds) ==
    [i \in 1..Len(CLASS_NAMES) |-> <<CLASS_NAMES[i], round_pct(preds[i])>>]

real_prediction(image_bytes, mdl) ==
    LET opened == Image_open(image_bytes)
    IN  IF opened.raised # "" THEN Raise(opened.raised)
        ELSE
          LET image     == resize(convert(opened.value, "RGB"), <<TargetSize, TargetSize>>)
              img_array == expand_dims(preprocess_input(np_array(image)))
              out       == model_predict(mdl, img_array)
          IN  IF out.raised # "" THEN Predicted(Raise(out.raised), img_array)
              ELSE
                LET preds      == out.value
                    probs      == make_probs(preds)
                    top_class  == CLASS_NAMES[argmax(preds)]
                    confidence == DictGet(probs, top_class)
                IN  Predicted(Return([class_name    |-> top_class,
                                      confidence    |-> confidence,
                                      probabilities |-> probs]),
                              img_array)

\* sorted(probs.items(), key=lambda x: x[1], reverse=True): a stable sort,
\* items of equal value keep their dict order
RECURSIVE insert_desc(_, _)
insert_desc(sorted, item) ==
    IF sorted = <<>> THEN <<item>>
    ELSE IF Head(sorted)[2] >= item[2]
         THEN <<Head(sorted)>> \o insert_desc(Tail(sorted), item)
         ELSE <<item>> \o sorted

RECURSIVE insert_asc(_, _)
insert_asc(sorted, item) ==
    IF sorted = <<>> THEN <<item>>
    ELSE IF Head(sorted)[2] <= item[2]
         THEN <<Head(sorted)>> \o insert_asc(Tail(sorted), item)
         ELSE <<item>> \o sorted

RECURSIVE sorted_asc_from(_, _, _)
sorted_asc_from(items, i, acc) ==
    IF i > Len(items) THEN acc
    ELSE sorted_asc_from(items, i + 1, insert_asc(acc, items[i]))

sorted_asc(items) == sorted_asc_from(items, 1, <<>>)

RECURSIVE sorted_desc_from(_, _, _)
sorted_desc_from(items, i, acc) ==
    IF i > Len(items) THEN acc
    ELSE sorted_desc_from(items, i + 1, insert_desc(acc, items[i]))

sorted_probs(items) == sorted_desc_from(items, 1, <<>>)

\* ------------------------------------------------------------ state values
NoFile == [name |-> 0, bytes |-> 0]

NoRender == [shown |-> FALSE, result |-> NoResult, image_bytes |-> 0, breakdown |-> <<>>]

EmptyState == [prediction |-> NoResult, last_file |-> 0, has_prediction |-> FALSE]

NoFn == [model |-> 0, bytes |-> 0]

NoFnOut == [stage |-> "in", result |-> Raise(""), breakdown |-> <<>>]

NoReturn == Raise("")

NoCycle == [kind |-> "other", calls |-> 0, reruns |-> 0]

\* The server process has started and the browser sessions S have connected;
\* no script run has happened yet.
InitOver(S) ==
    /\ modelFile \in 0..NumModels
    /\ cache = 0
    /\ loads = <<>>
    /\ calls = {}
    /\ uploaded = [s \in S |-> NoFile]
    /\ session_state = [s \in S |-> EmptyState]
    /\ model = [s \in S |-> 0]
    /\ pc = [s \in S |-> "idle"]
    /\ rendered = [s \in S |-> NoRender]
    /\ exc = [s \in S |-> ""]
    /\ ret = [s \in S |-> NoReturn]
    /\ cycle = [s \in S |-> NoCycle]
    /\ storedSinceRemoval = [s \in S |-> FALSE]
    /\ events = 0

ProcInit == InitOver(Sessions)

Init == ProcInit /\ fnIn = NoFn /\ fnOut = NoFnOut

\* ------------------------------------------------------------------ a run
\* A script run starts with a cleared page and a fresh module namespace.
StartRun(s) ==
    /\ pc' = [pc EXCEPT ![s] = "start"]
    /\ rendered' = [rendered EXCEPT ![s] = NoRender]
    /\ exc' = [exc EXCEPT ![s] = ""]
    /\ model' = [model EXCEPT ![s] = 0]

\* ---------------------------------------------------------------- load_model
cache_store_none(value) == 0

\* what st.cache_resource keeps after the wrapped function returned `value`
cache_store(value) == value

\* Line 286, `model = load_model()`, the first statement of every script run
\* that touches state.  A cache hit returns the entry; a miss executes
\* tf.keras.models.load_model, whose exception is not cached and ends the run.
LoadModel(s) ==
    /\ pc[s] = "start"
    /\ IF cache # 0
       THEN /\ model' = [model EXCEPT ![s] = cache]
            /\ pc' = [pc EXCEPT ![s] = "main"]
            /\ UNCHANGED <<cache, loads, exc>>
       ELSE /\ loads' = Append(loads, modelFile)
            /\ IF modelFile = 0
               THEN /\ exc' = [exc EXCEPT ![s] = "OSError"]
                    /\ pc' = [pc EXCEPT ![s] = "error"]
                    /\ UNCHANGED <<cache, model>>
               ELSE /\ cache' = cache_store(modelFile)
                    /\ model' = [model EXCEPT ![s] = modelFile]
                    /\ pc' = [pc EXCEPT ![s] = "main"]
                    /\ UNCHANGED exc
    /\ UNCHANGED <<modelFile, calls, uploaded, session_state, rendered, ret, cycle,
                   storedSinceRemoval, events, fnIn, fnOut>>

\* ------------------------------------------------------------ render_results
\* TUMOR_INFO[key][f] for every f of fields raises no KeyError
Lookup(key, fields) == key \in DOMAIN TUMOR_INFO /\ fields \subseteq TUMOR_INFO[key]

\* The fields render_results reads of the entry of class_name (lines 587-746),
\* and the ones it and the chart helpers read for every key of the
\* probabilities (lines 318-320, 384-386, 639-647).
ClassFields ==
    {"color", "label", "severity_level", "severity", "description",
     "symptoms", "treatment", "prevalence", "survival_rate"}

ChartFields == {"label", "color"}

\* the exception the lookups of render_results(result, image_bytes) raise
render_results_raises(result) ==
    IF /\ Lookup(result.class_name, ClassFields)
       /\ \A k \in DictKeys(result.probabilities) : Lookup(k, ChartFields)
    THEN "" ELSE "KeyError"

\* What render_results(result, image_bytes) puts on the page: the diagnosis
\* of result, the uploaded image, and the breakdown sorted_probs.
render_results(result, image_bytes) ==
    [shown       |-> TRUE,
     result      |-> result,
     image_bytes |-> image_bytes,
     breakdown   |-> sorted_probs(result.probabilities)]

\* ------------------------------------------------------------- call history
\* The history after one more call of real_prediction: one entry for each
\* distinct (image bytes, model handle, result), marked `again` once the same
\* call has returned the same result more than once.
Record(history, image_bytes, mdl, result) ==
    LET once  == [bytes |-> image_bytes, model |-> mdl, result |-> result, again |-> FALSE]
        twice == [once EXCEPT !.again = TRUE]
    IN  IF once \in history \/ twice \in history
        THEN (history \ {once}) \cup {twice}
        ELSE history \cup {once}

\* ---------------------------------------------------------- st.session_state
call_stores(states, s, result) ==
    [states EXCEPT ![s] = [@ EXCEPT !.prediction = result.value, !.has_prediction = TRUE]]

\* st.session_state after a call of real_prediction by session s: the
\* function assigns no key of it
session_state_after_call(states, s, result) == states

store_prediction_global(states, s, value, name) ==
    [t \in DOMAIN states |->
        [prediction |-> value, last_file |-> name, has_prediction |-> TRUE]]

store_prediction_nameless(states, s, value, name) ==
    [states EXCEPT ![s] = [@ EXCEPT !.prediction = value, !.has_prediction = TRUE]]

\* st.session_state after lines 805-806 of session s
store_prediction(states, s, value, name) ==
    [states EXCEPT ![s] =
        [prediction |-> value, last_file |-> name, has_prediction |-> TRUE]]

pop_prediction(states, s) ==
    [states EXCEPT ![s] = [@ EXCEPT !.prediction = NoResult, !.has_prediction = FALSE]]

\* st.session_state after lines 812-813 of session s
pop_keys(states, s) == [states EXCEPT ![s] = EmptyState]

\* ---------------------------------------------------------------------- main
\* main() of one script run, lines 765-825, up to the call of line 805 or,
\* when there is nothing to classify, to its end.
Main(s) ==
    /\ pc[s] = "main"
    /\ LET uploaded_file == uploaded[s]
           image_bytes   == uploaded_file.bytes
       IN  IF uploaded_file # NoFile
           THEN IF \/ ~session_state[s].has_prediction
                   \/ session_state[s].last_file # uploaded_file.name
                THEN /\ pc' = [pc EXCEPT ![s] = "call"]
                     /\ UNCHANGED <<session_state, rendered, exc>>
                ELSE IF render_results_raises(session_state[s].prediction) # ""
                THEN /\ exc' = [exc EXCEPT ![s] =
                                   render_results_raises(session_state[s].prediction)]
                     /\ pc' = [pc EXCEPT ![s] = "error"]
                     /\ UNCHANGED <<session_state, rendered>>
                ELSE /\ rendered' = [rendered EXCEPT ![s] =
                                        render_results(session_state[s].prediction,
                                                       image_bytes)]
                     /\ pc' = [pc EXCEPT ![s] = "idle"]
                     /\ UNCHANGED <<session_state, exc>>
           ELSE /\ session_state' = pop_keys(session_state, s)
                /\ pc' = [pc EXCEPT ![s] = "idle"]
                /\ UNCHANGED <<rendered, exc>>
    /\ UNCHANGED <<modelFile, cache, loads, calls, uploaded, model, ret, cycle,
                   storedSinceRemoval, events, fnIn, fnOut>>

\* The call real_prediction(image_bytes) of line 805.  An exception it raises
\* is caught nowhere and ends the script run.
RealPrediction(s) ==
    /\ pc[s] = "call"
    /\ LET image_bytes == uploaded[s].bytes
           result      == real_prediction(image_bytes, model[s])
       IN  /\ calls' = Record(calls, image_bytes, model[s], result)
           /\ session_state' = session_state_after_call(session_state, s, result)
           /\ IF result.raised # ""
              THEN /\ exc' = [exc EXCEPT ![s] = result.raised]
                   /\ pc' = [pc EXCEPT ![s] = "error"]
                   /\ UNCHANGED ret
              ELSE /\ ret' = [ret EXCEPT ![s] = result]
                   /\ pc' = [pc EXCEPT ![s] = "store"]
                   /\ UNCHANGED exc
    /\ cycle' = [cycle EXCEPT ![s].calls = @ + 1]
    /\ UNCHANGED <<modelFile, cache, loads, uploaded, model, rendered,
                   storedSinceRemoval, events, fnIn, fnOut>>

\* Lines 805-807: the returned value and the file name are stored and
\* st.rerun() ends this run and starts the next one.
StorePrediction(s) ==
    /\ pc[s] = "store"
    /\ session_state' =
          store_prediction(session_state, s, ret[s].value, uploaded[s].name)
    /\ ret' = [ret EXCEPT ![s] = NoReturn]
    /\ cycle' = [cycle EXCEPT ![s].reruns = @ + 1]
    /\ storedSinceRemoval' = [storedSinceRemoval EXCEPT ![s] = TRUE]
    /\ StartRun(s)
    /\ UNCHANGED <<modelFile, cache, loads, calls, uploaded, events, fnIn, fnOut>>

\* ------------------------------------------------------------- the browser
\* The kind of a browser event, by what line 786 will find: "new" for the
\* upload of a decodable file under a name for which nothing is stored,
\* "same" for a rerun with the file whose name the stored prediction carries.
UploadKind(state, file) ==
    IF Decodes(file.bytes) /\ (~state.has_prediction \/ state.last_file # file.name)
    THEN "new" ELSE "other"

RerunKind(state, file) ==
    IF file # NoFile /\ state.has_prediction /\ state.last_file = file.name
    THEN "same" ELSE "other"

Waiting(s) == pc[s] \in {"idle", "error"} /\ events < MaxEvents

\* st.file_uploader: the user drops a file (the first one, or one replacing
\* the current one); the widget change starts a script run.
Upload(s) ==
    /\ Waiting(s)
    /\ \E n \in 1..NumNames, b \in 0..MaxBytes :
          /\ [name |-> n, bytes |-> b] # uploaded[s]
          /\ uploaded' = [uploaded EXCEPT ![s] = [name |-> n, bytes |-> b]]
          /\ cycle' = [cycle EXCEPT ![s] =
                          [NoCycle EXCEPT !.kind =
                              UploadKind(session_state[s], [name |-> n, bytes |-> b])]]
    /\ StartRun(s)
    /\ events' = events + 1
    /\ UNCHANGED <<modelFile, cache, loads, calls, session_state, ret,
                   storedSinceRemoval, fnIn, fnOut>>

\* the user removes the uploaded file
Remove(s) ==
    /\ Waiting(s)
    /\ uploaded[s] # NoFile
    /\ uploaded' = [uploaded EXCEPT ![s] = NoFile]
    /\ cycle' = [cycle EXCEPT ![s] = NoCycle]
    /\ storedSinceRemoval' = [storedSinceRemoval EXCEPT ![s] = FALSE]
    /\ StartRun(s)
    /\ events' = events + 1
    /\ UNCHANGED <<modelFile, cache, loads, calls, session_state, ret, fnIn, fnOut>>

\* the user asks for a rerun of the script without changing the widget
Rerun(s) ==
    /\ Waiting(s)
    /\ cycle' = [cycle EXCEPT ![s] =
                    [NoCycle EXCEPT !.kind = RerunKind(session_state[s], uploaded[s])]]
    /\ StartRun(s)
    /\ events' = events + 1
    /\ UNCHANGED <<modelFile, cache, loads, calls, uploaded, session_state, ret,
                   storedSinceRemoval, fnIn, fnOut>>

\* -------------------------------------------------------------- the disk
\* tumor_model.keras is written, replaced or deleted outside the program
ReplaceModelFile ==
    /\ events < MaxEvents
    /\ \E f \in 0..NumModels : f # modelFile /\ modelFile' = f
    /\ events' = events + 1
    /\ UNCHANGED <<cache, loads, calls, uploaded, session_state,
                   model, pc, rendered, exc, ret, cycle, storedSinceRemoval,
                   fnIn, fnOut>>

Next ==
    \/ \E s \in Sessions : LoadModel(s)
    \/ \E s \in Sessions : Main(s)
    \/ \E s \in Sessions : RealPrediction(s)
    \/ \E s \in Sessions : StorePrediction(s)
    \/ \E s \in Sessions : Upload(s)
    \/ \E s \in Sessions : Remove(s)
    \/ \E s \in Sessions : Rerun(s)
    \/ ReplaceModelFile

Spec == Init /\ [][Next]_vars

\* ------------------------------------------------ two concurrent sessions
\* Two browser sessions of the one server process; each uploads one file and
\* its script runs, interleaved in every way with the runs of the other.
Pair == {1, 2}

TwoInit == InitOver(Pair) /\ fnIn = NoFn /\ fnOut = NoFnOut

FirstUpload(s) == uploaded[s] = NoFile /\ Upload(s)

TwoNext ==
    \/ \E s \in Pair : LoadModel(s)
    \/ \E s \in Pair : Main(s)
    \/ \E s \in Pair : RealPrediction(s)
    \/ \E s \in Pair : StorePrediction(s)
    \/ \E s \in Pair : FirstUpload(s)
    \/ \E s \in Pair : Rerun(s)
    \/ ReplaceModelFile

SpecTwo == TwoInit /\ [][TwoNext]_vars

\* ------------------------------------------- function-level specification
\* One call of real_prediction, followed by render_results on what it
\* returned, for every image and every vector the model can answer with.
FnInit ==
    /\ ProcInit
    /\ modelFile = 0
    /\ fnIn \in [model : 1..Len(PredSeq), bytes : 0..FnMaxBytes]
    /\ fnOut = NoFnOut

FnPredict ==
    /\ fnOut.stage = "in"
    /\ fnOut' = [stage     |-> "predicted",
                 result    |-> real_prediction(fnIn.bytes, fnIn.model),
                 breakdown |-> <<>>]
    /\ UNCHANGED <<procVars, fnIn>>

FnRender ==
    /\ fnOut.stage = "predicted"
    /\ fnOut.result.raised = ""
    /\ IF render_results_raises(fnOut.result.value) # ""
       THEN fnOut' = [fnOut EXCEPT !.stage = render_results_raises(fnOut.result.value)]
       ELSE fnOut' = [fnOut EXCEPT !.stage = "rendered",
                                   !.breakdown =
                                       render_results(fnOut.result.value,
                                                      fnIn.bytes).breakdown]
    /\ UNCHANGED <<procVars, fnIn>>

FnNext == FnPredict \/ FnRender

SpecFn == FnInit /\ [][FnNext]_vars

\* ================================================================== claims
\* Vocabulary of the function-level claims.
FnOk == fnOut.stage # "in" /\ fnOut.result.raised = ""

FnRendered == fnOut.stage = "rendered"

FnResult == fnOut.result.value

\* the vector the model answers with for the input of this call
FnPreds == PredSeq[AnswerIndex(fnIn.model, fnIn.bytes)]

LabelIndex(label) == CHOOSE i \in 1..Len(CLASS_NAMES) : CLASS_NAMES[i] = label

ValueAt(probs, label) == probs[CHOOSE i \in 1..Len(probs) : probs[i][1] = label][2]

RECURSIVE SumValues(_)
SumValues(probs) ==
    IF probs = <<>> THEN 0 ELSE Head(probs)[2] + SumValues(Tail(probs))

FullPercent == 100 * 100

\* C1: class_name is the label of the maximal model probability, and among
\* several maximal classes the one that comes first in CLASS_NAMES.
C1_TopLabelIsFirstMaximum ==
    FnOk =>
        /\ FnResult.class_name \in {CLASS_NAMES[i] : i \in 1..Len(CLASS_NAMES)}
        /\ LET top == LabelIndex(FnResult.class_name)
           IN  /\ \A j \in 1..Len(FnPreds) : FnPreds[j] <= FnPreds[top]
               /\ \A j \in 1..(top - 1) : FnPreds[j] < FnPreds[top]

C1_Witness ==
    /\ FnOk
    /\ FnPreds[1] < FnPreds[2]
    /\ FnPreds[2] = FnPreds[3]
    /\ FnPreds[4] <= FnPreds[2]
    /\ FnResult.class_name = "meningioma"

\* C2 as claimed: class_name is the first label in CLASS_NAMES order whose
\* value in the returned 'probabilities' map is maximal, and it is the first
\* entry of the descending breakdown of render_results.
C2_Original_FirstMaxOfRounded ==
    FnOk =>
        /\ LET probs == FnResult.probabilities
               first == CHOOSE i \in 1..Len(probs) :
                           /\ \A j \in 1..Len(probs) : probs[j][2] <= probs[i][2]
                           /\ \A j \in 1..(i - 1) : probs[j][2] < probs[i][2]
           IN  FnResult.class_name = probs[first][1]
        /\ FnRendered => fnOut.breakdown[1][1] = FnResult.class_name

\* C2 amended: the value of class_name in the returned map is maximal and
\* is the value of the first entry of the breakdown; class_name is that first
\* entry whenever no label before it in CLASS_NAMES has the same rounded value.
C2_TopValueIsMaximal ==
    FnOk =>
        LET probs == FnResult.probabilities
            cls   == FnResult.class_name
            top   == ValueAt(probs, cls)
        IN  /\ \A j \in 1..Len(probs) : probs[j][2] <= top
            /\ FnRendered =>
                 /\ fnOut.breakdown[1][2] = top
                 /\ (\A j \in 1..(LabelIndex(cls) - 1) : probs[j][2] < top)
                       => fnOut.breakdown[1][1] = cls

C2_Witness ==
    /\ FnOk
    /\ FnRendered
    /\ fnOut.breakdown[1][1] # FnResult.class_name
    /\ fnOut.breakdown[1][2] = FnResult.confidence

\* C3: confidence is the percentage of the top label: it is
\* probabilities[class_name], lies in [0, 100] and is at least every entry.
C3_ConfidenceIsTopPercentage ==
    FnOk =>
        LET probs == FnResult.probabilities
        IN  /\ FnResult.confidence = ValueAt(probs, FnResult.class_name)
            /\ 0 <= FnResult.confidence
            /\ FnResult.confidence <= FullPercent
            /\ \A j \in 1..Len(probs) : probs[j][2] <= FnResult.confidence

C3_Witness ==
    /\ FnOk
    /\ FnResult.class_name = "pituitary"
    /\ FnResult.confidence = FullPercent \div 2
    /\ ValueAt(FnResult.probabilities, "glioma") < FnResult.confidence

\* C4 as claimed: the returned 'probabilities' are non-negative and sum to
\* 1.0 within 1e-4 (a value v of the model is the number v / 100).
C4_Original_SumsToOne ==
    FnOk =>
        LET probs == FnResult.probabilities
        IN  /\ \A j \in 1..Len(probs) : probs[j][2] >= 0
            /\ SumValues(probs) * 100 - 10000 <= 1
            /\ 10000 - SumValues(probs) * 100 <= 1

\* C4 amended: the returned 'probabilities' are percentages: each lies in
\* [0, 100] and they sum to 100 within 0.02.
C4_PercentagesSumToHundred ==
    FnOk =>
        LET probs == FnResult.probabilities
        IN  /\ \A j \in 1..Len(probs) : probs[j][2] >= 0 /\ probs[j][2] <= FullPercent
            /\ SumValues(probs) - FullPercent <= 2
            /\ FullPercent - SumValues(probs) <= 2

C4_Witness ==
    /\ FnOk
    /\ SumValues(FnResult.probabilities) = FullPercent - 2

\* C5: for a decodable image of any width, height and aspect ratio the
\* result has exactly the 4 keys glioma, meningioma, notumor, pituitary and
\* class_name is one of them.
C5_FourLabelsForAnySize ==
    (fnOut.stage # "in" /\ Image_open(fnIn.bytes).raised = "") =>
        /\ fnOut.result.raised = ""
        /\ Len(FnResult.probabilities) = 4
        /\ DictKeys(FnResult.probabilities)
              = {"glioma", "meningioma", "notumor", "pituitary"}
        /\ FnResult.class_name \in {"glioma", "meningioma", "notumor", "pituitary"}

C5_Witness ==
    /\ FnOk
    /\ Image_open(fnIn.bytes).value.size = <<1, 500>>
    /\ Len(FnResult.probabilities) = 4

\* C8 as claimed: consecutive entries of the 'probabilities' collection
\* returned by real_prediction are in non-increasing order of value.
C8_Original_ReturnedSorted ==
    FnOk =>
        LET probs == FnResult.probabilities
        IN  \A i \in 1..(Len(probs) - 1) : probs[i][2] >= probs[i + 1][2]

\* C8 amended: real_prediction returns the entries in CLASS_NAMES order;
\* the breakdown render_results builds from them holds the same entries in
\* non-increasing order of value.
C8_BreakdownSortedDescending ==
    FnOk =>
        LET probs == FnResult.probabilities
            bd    == fnOut.breakdown
        IN  /\ \A i \in 1..Len(probs) : probs[i][1] = CLASS_NAMES[i]
            /\ FnRendered =>
                 /\ Len(bd) = Len(probs)
                 /\ {bd[i] : i \in 1..Len(bd)} = {probs[i] : i \in 1..Len(probs)}
                 /\ \A i \in 1..(Len(bd) - 1) : bd[i][2] >= bd[i + 1][2]

C8_Witness ==
    /\ FnOk
    /\ FnRendered
    /\ \E i \in 1..3 : FnResult.probabilities[i][2] < FnResult.probabilities[i + 1][2]
    /\ fnOut.breakdown[1][2] > fnOut.breakdown[4][2]

\* C11: a successful call of real_prediction hands exactly one tensor to
\* model.predict, the decoded image after conversion to RGB, resizing to
\* 300 x 300, preprocessing and batching; a call that fails at decoding
\* hands it none.
C11_PredictOnceAfterPreparation ==
    fnOut.stage # "in" =>
        /\ fnOut.result.raised = "" =>
              /\ Decodes(fnIn.bytes)
              /\ fnOut.result.predicts =
                    << [shape |-> <<1, TargetSize, TargetSize, 3>>,
                        px    |-> Image_open(fnIn.bytes).value.px,
                        pre   |-> TRUE] >>
        /\ ~Decodes(fnIn.bytes) =>
              /\ fnOut.result.raised = "UnidentifiedImageError"
              /\ fnOut.result.predicts = <<>>

C11_Witness ==
    /\ FnOk
    /\ Image_open(fnIn.bytes).value.mode = "RGBA"
    /\ Image_open(fnIn.bytes).value.size = <<500, 1>>
    /\ Len(fnOut.result.predicts) = 1

\* C18: class_name and every key of 'probabilities' of a returned result is
\* a key of TUMOR_INFO whose entry has the fields label, color, severity,
\* severity_level, description, symptoms, treatment, prevalence and
\* survival_rate, and render_results raises no KeyError for the result.
C18_LabelsAreKeysOfTumorInfo ==
    /\ FnOk =>
          \A k \in {FnResult.class_name} \cup DictKeys(FnResult.probabilities) :
              /\ k \in DOMAIN TUMOR_INFO
              /\ {"label", "color", "severity", "severity_level", "description",
                  "symptoms", "treatment", "prevalence", "survival_rate"}
                    \subseteq TUMOR_INFO[k]
    /\ fnOut.stage \in {"in", "predicted", "rendered"}

C18_Witness ==
    /\ FnRendered
    /\ FnResult.class_name = "notumor"
    /\ Len(fnOut.breakdown) = 4

\* Process-level claims.

\* C6 as claimed: when the uploaded bytes do not decode, the script run
\* neither ends in the uncaught decoding exception nor renders a result for
\* those bytes.
C6_Original_UndecodableRejected ==
    \A s \in Sessions :
        (uploaded[s] # NoFile /\ ~Decodes(uploaded[s].bytes)) =>
            /\ ~(pc[s] = "error" /\ exc[s] = "UnidentifiedImageError")
            /\ ~(rendered[s].shown /\ rendered[s].image_bytes = uploaded[s].bytes)

C10_Original_LoadFailureFatal ==
    (\E i \in 1..Len(loads) : loads[i] = 0) =>
        /\ Len(loads) = 1
        /\ calls = {}
        /\ \A s \in Sessions : ~rendered[s].shown

\* C12: a call of real_prediction, whether it returns or raises, leaves the
\* model handle (the cache entry and the global `model` of every run), the
\* model file and st.session_state of every session as they were.
C12_CallLeavesSharedState ==
    [][\A s \in Sessions :
          (pc[s] = "call" /\ pc'[s] # "call") =>
              /\ session_state' = session_state
              /\ cache' = cache
              /\ model' = model
              /\ loads' = loads
              /\ modelFile' = modelFile]_vars

C12_Witness ==
    \E s \in Sessions :
        /\ pc[s] = "store"
        /\ ret[s].raised = ""
        /\ session_state[s].has_prediction
        /\ session_state[s].prediction # ret[s].value
        /\ \E c \in calls : c.result.raised # ""

\* C13: in every interleaving of two sessions that each upload a file, the
\* prediction a session has stored, and the one it has rendered, is
\* real_prediction of that session's own uploaded bytes, stored under the
\* name of its own file.
C13_OwnPredictionPerSession ==
    \A s \in Pair :
        LET own == real_prediction(uploaded[s].bytes, cache)
        IN  /\ session_state[s].has_prediction =>
                  /\ uploaded[s] # NoFile
                  /\ own.raised = ""
                  /\ session_state[s].prediction = own.value
                  /\ session_state[s].last_file = uploaded[s].name
            /\ rendered[s].shown =>
                  /\ own.raised = ""
                  /\ rendered[s].result = own.value
                  /\ rendered[s].image_bytes = uploaded[s].bytes

C13_Witness ==
    /\ rendered[1].shown
    /\ rendered[2].shown
    /\ uploaded[1].name = uploaded[2].name
    /\ uploaded[1].bytes # uploaded[2].bytes
    /\ rendered[1].result # rendered[2].result

\* C14 as claimed: whenever main has called render_results, the prediction
\* it passed is real_prediction of the image bytes uploaded in that run, also
\* after a file was replaced by another one of the same name.
C14_Original_RendersPredictionOfUploadedBytes ==
    \A s \in Sessions :
        rendered[s].shown =>
            LET fresh == real_prediction(rendered[s].image_bytes, model[s])
            IN  /\ rendered[s].image_bytes = uploaded[s].bytes
                /\ fresh.raised = ""
                /\ rendered[s].result = fresh.value

\* C15 as claimed: a run in which real_prediction raises leaves 'prediction'
\* and 'last_file' of st.session_state as they were and renders nothing, and
\* once a call has raised, every completed run for an uploaded valid image
\* still has classified that image and rendered its prediction.
C15_Original_FailureIsLocal ==
    /\ [][\A s \in Sessions :
             (pc[s] \in {"main", "call"} /\ pc'[s] \in {"call", "error"}) =>
                 /\ session_state'[s] = session_state[s]
                 /\ ~rendered'[s].shown]_vars
    /\ [](\A s \in Sessions :
             ( /\ \E c \in calls : c.result.raised # ""
               /\ pc[s] = "idle"
               /\ uploaded[s] # NoFile
               /\ Decodes(uploaded[s].bytes) ) =>
                 /\ rendered[s].shown
                 /\ rendered[s].image_bytes = uploaded[s].bytes
                 /\ rendered[s].result =
                       real_prediction(uploaded[s].bytes, model[s]).value)

\* C16: serving one browser event takes at most one real_prediction call
\* and at most one st.rerun(), the rerun only after the call.  After the
\* upload of a decodable file with a new name the results are rendered by the
\* run that follows the one call and the one rerun, and that run neither
\* calls nor reruns; a further run with the same file makes no call and no
\* rerun and renders the stored prediction.
C16_OneCallOneRerunThenRender ==
    \A s \in Sessions :
        LET c == cycle[s]
        IN  /\ c.calls <= 1
            /\ c.reruns <= c.calls
            /\ c.kind = "new" =>
                  /\ c.reruns = 1 => pc[s] \in {"start", "main", "idle"}
                  /\ pc[s] = "idle" => rendered[s].shown
                  /\ rendered[s].shown =>
                        /\ c.calls = 1
                        /\ c.reruns = 1
                        /\ rendered[s].result = session_state[s].prediction
                        /\ rendered[s].result =
                              real_prediction(uploaded[s].bytes, model[s]).value
            /\ c.kind = "same" =>
                  /\ c.calls = 0
                  /\ c.reruns = 0
                  /\ pc[s] \in {"start", "main", "idle"}
                  /\ pc[s] = "idle" =>
                        /\ rendered[s].shown
                        /\ rendered[s].result = session_state[s].prediction

C16_Witness ==
    \E s \in Sessions :
        /\ cycle[s].kind = "same"
        /\ pc[s] = "idle"
        /\ rendered[s].shown
        /\ calls = {[bytes  |-> uploaded[s].bytes,
                     model  |-> model[s],
                     result |-> real_prediction(uploaded[s].bytes, model[s]),
                     again  |-> FALSE]}

\* C17: when a script run has ended, 'prediction' is in st.session_state
\* exactly if 'last_file' is; after a run without an uploaded file both are
\* absent; and a prediction that is rendered was stored after the uploader
\* was last emptied, for a file of the current name.
C17_KeysTogetherAndClearedOnRemoval ==
    \A s \in Sessions :
        /\ pc[s] \in {"idle", "error", "start"} =>
              (session_state[s].has_prediction <=> session_state[s].last_file # 0)
        /\ (pc[s] \in {"idle", "error"} /\ uploaded[s] = NoFile) =>
              /\ ~session_state[s].has_prediction
              /\ session_state[s].last_file = 0
              /\ ~rendered[s].shown
        /\ rendered[s].shown =>
              /\ storedSinceRemoval[s]
              /\ session_state[s].has_prediction
              /\ rendered[s].result = session_state[s].prediction
              /\ session_state[s].last_file = uploaded[s].name

C17_Witness ==
    \E s \in Sessions :
        /\ pc[s] = "idle"
        /\ uploaded[s] = NoFile
        /\ session_state[s] = EmptyState
        /\ \E c \in calls : c.result.raised = ""

====
